---- MODULE Spec2Model ----
(***************************************************************************)
(* DyntamicFactory (src/src/dyntamic/factory.py): building a pydantic      *)
(* model from a JSON Schema.  make() is recursive through _make_nested;    *)
(* the recursion is modelled by an explicit stack of factory objects, one  *)
(* step per iteration of the loop of make().                               *)
(***************************************************************************)
EXTENDS Integers, Sequences, FiniteSets, TLC

\* The largest number of properties of the top-level schema.
MaxProps == 2
\* The interpreter's recursion limit, counted in nested factories.
MaxDepth == 4

\* A key that a dict does not hold / the value None.
NoKey == "<absent>"
None == "None"

FieldNames == {"a", "b", "title"}

(***************************************************************************)
(* JSON Schema values.  A property schema is a dict with the optional keys *)
(* '$ref', 'type' and 'items'; 'items' is itself a dict with an optional   *)
(* '$ref'.  A schema node has 'title', 'required' (optional), 'properties' *)
(* (an ordered dict, here a sequence of name/schema pairs with distinct    *)
(* names) and, under the key ref_template, a definitions table (optional). *)
(* Tables are named, as dicts are referred to, by an identifier.           *)
(***************************************************************************)
NoItems == [present |-> FALSE, ref |-> NoKey]
RefTo(r) == [ref |-> r, type |-> NoKey, items |-> NoItems]
Primitive(t) == [ref |-> NoKey, type |-> t, items |-> NoItems]
ListOf(r) == [ref |-> NoKey, type |-> "array", items |-> [present |-> TRUE, ref |-> r]]
ListPlain == ListOf(NoKey)
ListNoItems == [ref |-> NoKey, type |-> "array", items |-> NoItems]

Prop(n, s) == [name |-> n, schema |-> s]
NoRequired == [present |-> FALSE, names |-> {}]
Required(ns) == [present |-> TRUE, names |-> ns]
Node(t, req, props, d) == [title |-> t, required |-> req, properties |-> props, defs |-> d]
\* A name the definitions table does not hold: dict.get gives None.
AbsentNode == Node(None, NoRequired, <<>>, NoKey)

RefNames == {"A", "B", "C"}
TableIds == {"T0", "T1"}

\* The definitions the table of the document may give for "A" and for "B".
DefsForA ==
  { AbsentNode,
    Node("A", Required({"y"}), <<Prop("y", Primitive("string")), Prop("z", Primitive("boolean"))>>, NoKey),
    Node("A", NoRequired, <<Prop("y", RefTo("B"))>>, NoKey),
    Node("A", Required({"y"}), <<Prop("y", ListOf("B")), Prop("z", Primitive("number"))>>, NoKey),
    Node("A", Required({}), <<Prop("y", RefTo("B"))>>, "T1"),
    Node("A", NoRequired, <<Prop("y", RefTo("A"))>>, NoKey),
    Node("A", Required({"y"}), <<Prop("y", Primitive(NoKey)), Prop("z", ListNoItems)>>, NoKey) }

DefsForB ==
  { AbsentNode,
    Node("B", NoRequired, <<Prop("y", Primitive("integer"))>>, NoKey),
    Node("B", Required({"y"}), <<Prop("y", RefTo("A"))>>, NoKey),
    Node("B", Required({"a"}),
         <<Prop("title", Primitive("string")), Prop("y", ListPlain), Prop("a", Primitive("float"))>>, NoKey) }

\* The table a definition may carry under its own definitions key.
InnerTable ==
  [r \in RefNames |->
     IF r = "B" THEN Node("B", Required({"w"}), <<Prop("w", Primitive("string"))>>, NoKey)
     ELSE AbsentNode]

TopShapes ==
  { RefTo("A"), RefTo("C"), ListOf("B"), ListPlain,
    Primitive("string"), Primitive("frobnicate") }

TopRequired == { NoRequired, Required({}), Required({"a"}), Required({"a", "b"}) }

\* The ordered dicts of at most n properties: distinct names, any shapes.
RECURSIVE PropertyDicts(_)
PropertyDicts(n) ==
  IF n = 0 THEN { <<>> }
  ELSE LET shorter == PropertyDicts(n - 1)
       IN shorter \cup
          { Append(p, Prop(f, s)) :
              p \in { q \in shorter : Len(q) = n - 1 },
              f \in FieldNames, s \in TopShapes }

Names(props) == [k \in 1..Len(props) |-> props[k].name]
Range(s) == { s[k] : k \in 1..Len(s) }
Distinct(s) == \A j, k \in 1..Len(s) : s[j] = s[k] => j = k

TopSchemas ==
  { Node("Top", req, props, d) :
      req \in TopRequired,
      props \in { p \in PropertyDicts(MaxProps) : Distinct(Names(p)) },
      d \in {"T0", NoKey} }

(***************************************************************************)
(* Types, fields and models.  A type is a primitive (str, int, ...), None, *)
(* a model made by create_model (its name and its fields), or list[model]. *)
(***************************************************************************)
Prim(n) == [kind |-> "prim", name |-> n, fields |-> <<>>]
NoneType == [kind |-> "none", name |-> None, fields |-> <<>>]
ModelType(n, fs) == [kind |-> "model", name |-> n, fields |-> fs]
ListType(m) == [kind |-> "list", name |-> m.name, fields |-> m.fields]

\* TYPES.get(keyword): None for a keyword the table lacks, and for no keyword.
TYPES(keyword) ==
  CASE keyword = "string" -> Prim("str")
    [] keyword = "array" -> Prim("list")
    [] keyword = "boolean" -> Prim("bool")
    [] keyword = "integer" -> Prim("int")
    [] keyword = "float" -> Prim("float")
    [] keyword = "number" -> Prim("float")
    [] OTHER -> NoneType

\* dict.get on an ordered dict of properties.
HasKey(props, key) == \E k \in 1..Len(props) : props[k].name = key
DictGet(props, key) ==
  IF HasKey(props, key)
  THEN (CHOOSE p \in Range(props) : p.name = key).schema
  ELSE RefTo(NoKey)

\* A dict that would put a new key first.
DictSetFront(fields, key, value) == <<value>> \o fields

\* d[key] = value on an ordered dict of fields: in place when the key is held.
DictSet(fields, key, value) ==
  IF \E k \in 1..Len(fields) : fields[k].name = key
  THEN [k \in 1..Len(fields) |-> IF fields[k].name = key THEN value ELSE fields[k]]
  ELSE Append(fields, value)

\* An alias: a string, None, or the dict found under the key 'title'.
AliasStr(s) == [kind |-> "str", str |-> s, dict |-> RefTo(NoKey)]
AliasNone == [kind |-> "none", str |-> None, dict |-> RefTo(NoKey)]
AliasDict(d) == [kind |-> "dict", str |-> None, dict |-> d]

\* self.raw_fields.get('title')
TitleOf(raw_fields) ==
  IF HasKey(raw_fields, "title") THEN AliasDict(DictGet(raw_fields, "title")) ELSE AliasNone

VARIABLES
  json_schema,   \* the document given to the top-level factory
  tables,        \* the definitions tables of the document, by identifier
  stack,         \* the factories whose make() is running, outermost first
  result         \* what make() of the top-level factory gave its caller

vars == <<json_schema, tables, stack, result>>

\* DyntamicFactory.__init__
RequiredGet(js) ==
  IF js.required.present THEN [false |-> FALSE, names |-> js.required.names]
  ELSE [false |-> TRUE, names |-> {}]

NewFactory(js) ==
  [ json_schema |-> js,
    class_name |-> js.title,
    required |-> RequiredGet(js),
    raw_fields |-> js.properties,
    definitions |-> IF js.defs = NoKey THEN None ELSE js.defs,
    model_fields |-> <<>>,
    i |-> 1 ]

\* {self.ref_template: self.definitions} | self.definitions.get(model_name)
Merged(definitions, node) ==
  [node EXCEPT !.defs = IF node.defs = NoKey THEN definitions ELSE node.defs]

\* not self.required or field not in self.required
Falsy(required) == required.false \/ required.names = {}
\* The membership test inverted.
IsOptionalInverted(self, field) == Falsy(self.required) \/ field \in self.required.names

IsOptional(self, field) == Falsy(self.required) \/ field \notin self.required.names

\* The tuple _make_field stores: the annotation (the type, and whether it is
\* Union[type | None]), and Field(default_factory=factory, alias=alias), ...
FieldOf(self, factory, field, alias) ==
  [ name |-> field,
    type |-> factory,
    optional |-> IsOptional(self, field),
    default_factory |-> factory,
    alias |-> alias,
    default |-> "Ellipsis" ]

\* factory | None raises TypeError when factory is None.
MakeFieldRaises(self, factory, field) ==
  IsOptional(self, field) /\ factory.kind = "none"

_make_field(self, factory, field, alias) ==
  [self EXCEPT !.model_fields = DictSet(@, field, FieldOf(self, factory, field, alias))]

NoResult == [kind |-> "none", error |-> None, model |-> NoneType]
Raised(e) == [kind |-> "error", error |-> e, model |-> NoneType]
Returned(m) == [kind |-> "model", error |-> None, model |-> m]

\* A document without a definitions key has nothing in its table.
DocumentTables(js) ==
  IF js.defs = NoKey
  THEN { [t \in TableIds |-> IF t = "T1" THEN InnerTable ELSE [r \in RefNames |-> AbsentNode]] }
  ELSE { [t \in TableIds |->
            IF t = "T1" THEN InnerTable
            ELSE [r \in RefNames |-> IF r = "A" THEN a ELSE IF r = "B" THEN b ELSE AbsentNode]] :
           a \in DefsForA, b \in DefsForB }

Init ==
  /\ json_schema \in TopSchemas
  /\ tables \in DocumentTables(json_schema)
  /\ stack = << NewFactory(json_schema) >>
  /\ result = NoResult

Top == stack[Len(stack)]
Running == result.kind = "none" /\ stack # <<>>
InLoop == Running /\ Top.i <= Len(Top.raw_fields)
Current == Top.raw_fields[Top.i]
Advance(self) == [self EXCEPT !.i = @ + 1]
ReplaceTop(self) == [stack EXCEPT ![Len(stack)] = self]

\* What the call _make_nested(model_name, ...) of the running factory does
\* before level.make() runs: "push", or the exception it raises.
NestedOutcome(self, model_name) ==
  IF self.definitions = None THEN "AttributeError"
  ELSE IF tables[self.definitions][model_name] = AbsentNode THEN "TypeError"
  ELSE IF Len(stack) >= MaxDepth THEN "RecursionError"
  ELSE "push"

Level(self, model_name) ==
  NewFactory(Merged(self.definitions, tables[self.definitions][model_name]))

IsRef == Current.schema.ref # NoKey
IsList == ~IsRef /\ TYPES(Current.schema.type) = Prim("list")
ListRef == IsList /\ Current.schema.items.present /\ Current.schema.items.ref # NoKey
NestedName == IF IsRef THEN Current.schema.ref ELSE Current.schema.items.ref

Raise(e) ==
  /\ result' = Raised(e)
  /\ stack' = <<>>
  /\ UNCHANGED <<json_schema, tables>>

\* make(), line 51-53: a '$ref' property; _make_nested builds the level factory.
MakeRefNested ==
  /\ InLoop /\ IsRef
  /\ NestedOutcome(Top, NestedName) = "push"
  /\ stack' = Append(stack, Level(Top, NestedName))
  /\ UNCHANGED <<json_schema, tables, result>>

\* make(), line 56-60: an array property whose items holds a '$ref'.
MakeListNested ==
  /\ InLoop /\ ListRef
  /\ NestedOutcome(Top, NestedName) = "push"
  /\ stack' = Append(stack, Level(Top, NestedName))
  /\ UNCHANGED <<json_schema, tables, result>>

\* _make_nested, line 67: the lookup or the merge raises, or the stack is full.
MakeNestedRaises ==
  /\ InLoop /\ (IsRef \/ ListRef)
  /\ NestedOutcome(Top, NestedName) # "push"
  /\ Raise(NestedOutcome(Top, NestedName))

\* make(), line 58: '$ref' in items, with items None.
MakeListRaises ==
  /\ InLoop /\ IsList /\ ~Current.schema.items.present
  /\ Raise("TypeError")

\* make(), line 56-60: an array property whose items holds no '$ref': no branch.
MakeListSkipped ==
  /\ InLoop /\ IsList /\ Current.schema.items.present /\ Current.schema.items.ref = NoKey
  /\ stack' = ReplaceTop(Advance(Top))
  /\ UNCHANGED <<json_schema, tables, result>>

\* make(), line 61-62: any other property.
MakePrimitive ==
  /\ InLoop /\ ~IsRef /\ ~IsList
  /\ ~MakeFieldRaises(Top, TYPES(Current.schema.type), Current.name)
  /\ stack' = ReplaceTop(Advance(_make_field(Top, TYPES(Current.schema.type), Current.name,
                                             TitleOf(Top.raw_fields))))
  /\ UNCHANGED <<json_schema, tables, result>>

MakePrimitiveRaises ==
  /\ InLoop /\ ~IsRef /\ ~IsList
  /\ MakeFieldRaises(Top, TYPES(Current.schema.type), Current.name)
  /\ Raise("TypeError")

\* _make_nested, line 70: create_model(model_name, **level.model_fields)
NestedModel(level, model_name) == ModelType(model_name, level.model_fields)

\* is_list ignored.
NestedFactoryNoList(model, is_list) == model

\* _make_nested, line 71-74: the factory of the field is list[model] or model.
NestedFactory(model, is_list) == IF is_list THEN ListType(model) ELSE model

\* level.make() returns (line 63, its model is dropped); _make_nested, line 70-74,
\* makes the model anew from level.model_fields and the caller's loop goes on.
ReturnNested ==
  /\ Running /\ Top.i > Len(Top.raw_fields) /\ Len(stack) > 1
  /\ LET level == Top
         self == stack[Len(stack) - 1]
         prop == self.raw_fields[self.i]
         is_list == prop.schema.ref = NoKey
         model_name == IF is_list THEN prop.schema.items.ref ELSE prop.schema.ref
         model == NestedModel(level, model_name)
     IN stack' = [SubSeq(stack, 1, Len(stack) - 1) EXCEPT ![Len(stack) - 1] =
                    Advance(_make_field(self, NestedFactory(model, is_list), prop.name,
                                        AliasStr(prop.name)))]
  /\ UNCHANGED <<json_schema, tables, result>>

\* make() of the top-level factory returns create_model(class_name, **model_fields).
ReturnModel ==
  /\ Running /\ Top.i > Len(Top.raw_fields) /\ Len(stack) = 1
  /\ result' = Returned(ModelType(Top.class_name, Top.model_fields))
  /\ stack' = <<>>
  /\ UNCHANGED <<json_schema, tables>>

Next ==
  \/ MakeRefNested
  \/ MakeListNested
  \/ MakeNestedRaises
  \/ MakeListRaises
  \/ MakeListSkipped
  \/ MakePrimitive
  \/ MakePrimitiveRaises
  \/ ReturnNested
  \/ ReturnModel

Spec == Init /\ [][Next]_vars

(***************************************************************************)
(* make() as the recursive function it is: the fields a factory at nesting *)
(* depth `depth` ends with, or that it raises.                             *)
(***************************************************************************)
Failed == [ok |-> FALSE, fields |-> <<>>]

RECURSIVE MakeFrom(_, _)
MakeFrom(self, depth) ==
  IF self.i > Len(self.raw_fields) THEN [ok |-> TRUE, fields |-> self.model_fields]
  ELSE
    LET prop == self.raw_fields[self.i]
        s == prop.schema
        factory == TYPES(s.type)
        is_list == s.ref = NoKey
        nested == IF s.ref # NoKey THEN TRUE
                  ELSE factory = Prim("list") /\ s.items.present /\ s.items.ref # NoKey
        model_name == IF s.ref # NoKey THEN s.ref ELSE s.items.ref
    IN IF nested THEN
         IF self.definitions = None THEN Failed
         ELSE IF tables[self.definitions][model_name] = AbsentNode THEN Failed
         ELSE IF depth >= MaxDepth THEN Failed
         ELSE LET level == MakeFrom(NewFactory(Merged(self.definitions,
                                                      tables[self.definitions][model_name])),
                                    depth + 1)
              IN IF ~level.ok THEN Failed
                 ELSE MakeFrom(Advance(_make_field(self,
                                 NestedFactory(ModelType(model_name, level.fields), is_list),
                                 prop.name, AliasStr(prop.name))), depth)
       ELSE IF factory = Prim("list") THEN
         IF ~s.items.present THEN Failed ELSE MakeFrom(Advance(self), depth)
       ELSE IF MakeFieldRaises(self, factory, prop.name) THEN Failed
       ELSE MakeFrom(Advance(_make_field(self, factory, prop.name, TitleOf(self.raw_fields))),
                     depth)

make(js, depth) == MakeFrom(NewFactory(js), depth)

(***************************************************************************)
(* Properties                                                              *)
(***************************************************************************)
Frames == 1..Len(stack)
Done == result.kind # "none"
NodeRequired(js) == IF js.required.present THEN js.required.names ELSE {}

\* C1: in every schema node that is built (the document and every definition
\* reached through $ref), a field is optional if and only if its name is not in
\* the `required` list of that node; a node without `required` has only
\* optional fields.
C1_OptionalIffNotRequired ==
  /\ \A k \in Frames : \A f \in Range(stack[k].model_fields) :
       f.optional <=> f.name \notin NodeRequired(stack[k].json_schema)
  /\ result.kind = "model" =>
       \A f \in Range(result.model.fields) :
         f.optional <=> f.name \notin NodeRequired(json_schema)

\* A nested node with a required and an optional field, inside a document whose
\* own field before it is required.
C1_Witness ==
  \E k \in Frames : k >= 2 /\
    /\ \E f, g \in Range(stack[k].model_fields) : f.optional /\ ~g.optional
    /\ stack[k].json_schema.required.present
    /\ \E h \in Range(stack[1].model_fields) : ~h.optional

Flat(props) ==
  \A k \in 1..Len(props) : props[k].schema.ref = NoKey /\ props[k].schema.type # "array"

\* C2: for a schema without $ref and without array-typed properties, the field
\* names of the model are the property names, in declaration order.
C2_FieldNamesInOrder ==
  /\ \A k \in Frames :
       Flat(stack[k].raw_fields) =>
         Names(stack[k].model_fields) = SubSeq(Names(stack[k].raw_fields), 1, stack[k].i - 1)
  /\ (result.kind = "model" /\ Flat(json_schema.properties)) =>
       Names(result.model.fields) = Names(json_schema.properties)

C2_Witness ==
  /\ result.kind = "model"
  /\ Flat(json_schema.properties)
  /\ Len(json_schema.properties) >= 2
  /\ Len(result.model.fields) >= 2

\* The fields of factory `self`, at nesting depth k, that come from a $ref or an
\* array of $ref are typed by the model of the definition built on its own.
NestedFieldsOK(self, fields, k) ==
  \A f \in Range(fields) :
    LET s == DictGet(self.raw_fields, f.name)
        isRef == s.ref # NoKey
        isListRef == s.ref = NoKey /\ s.type = "array" /\ s.items.present /\ s.items.ref # NoKey
        d == IF isRef THEN s.ref ELSE s.items.ref
    IN IF isRef \/ isListRef
       THEN LET own == make(Merged(self.definitions, tables[self.definitions][d]), k + 1)
            IN /\ own.ok
               /\ f.type = IF isRef THEN ModelType(d, own.fields)
                                    ELSE ListType(ModelType(d, own.fields))
       ELSE f.type.kind \notin {"model", "list"}

\* C3: a $ref property is typed by the nested model built from the definition,
\* an array of $ref by a sequence of it; the nested model has the fields that
\* building the definition gives.
C3_NestedModelBound ==
  /\ \A k \in Frames : NestedFieldsOK(stack[k], stack[k].model_fields, k)
  /\ result.kind = "model" => NestedFieldsOK(NewFactory(json_schema), result.model.fields, 1)

\* A model with a sequence-of-model field whose model has a nested-model field.
C3_Witness ==
  /\ result.kind = "model"
  /\ \E f \in Range(result.model.fields) :
       /\ f.type.kind = "list"
       /\ \E g \in Range(f.type.fields) : g.type.kind = "model" /\ g.type.fields # <<>>

\* Every field in sight: of the factories at work and of the returned model.
FieldsInSight ==
  UNION { Range(stack[k].model_fields) : k \in Frames } \cup Range(result.model.fields)

Unrecognized(props) ==
  \E k \in 1..Len(props) : props[k].schema.ref = NoKey /\ TYPES(props[k].schema.type) = NoneType

\* C4: a property without $ref whose type keyword is unrecognized or missing
\* makes build raise UnknownTypeError: no model is produced, and no field
\* without a usable type.
C4_UnknownTypeProducesNoModel ==
  /\ (Done /\ Unrecognized(json_schema.properties)) => result.kind = "error"
  /\ \A f \in FieldsInSight : f.type.kind # "none"

\* The references of a node, and the reference graph over (table, name).
RefsOf(props) ==
  { props[k].schema.ref : k \in { j \in 1..Len(props) : props[j].schema.ref # NoKey } }
  \cup { props[k].schema.items.ref :
           k \in { j \in 1..Len(props) :
                     /\ props[j].schema.ref = NoKey
                     /\ props[j].schema.type = "array"
                     /\ props[j].schema.items.ref # NoKey } }

Edges(v) ==
  LET node == tables[v[1]][v[2]]
  IN IF node = AbsentNode THEN {}
     ELSE { <<Merged(v[1], node).defs, r>> : r \in RefsOf(node.properties) }

RECURSIVE Closure(_)
Closure(S) ==
  LET T == S \cup UNION { Edges(v) : v \in S }
  IN IF T = S THEN S ELSE Closure(T)

CycleReachable ==
  /\ json_schema.defs # NoKey
  /\ \E v \in Closure({ <<json_schema.defs, r>> : r \in RefsOf(json_schema.properties) }) :
       v \in Closure(Edges(v))

\* C5: when the reference graph reachable from the schema has a cycle, build
\* ends by raising CyclicReferenceError (unless another property failed first).
C5_CycleRaisesCyclicReferenceError ==
  (Done /\ CycleReachable /\ result.error \notin {"TypeError", "AttributeError"})
    => result = Raised("CyclicReferenceError")

\* The first property of the document refers to a name its table lacks.
FirstRefUnresolved ==
  /\ json_schema.properties # <<>>
  /\ LET s == json_schema.properties[1].schema
         d == IF s.ref # NoKey THEN s.ref ELSE s.items.ref
     IN /\ s.ref # NoKey \/ (s.type = "array" /\ s.items.ref # NoKey)
        /\ IF json_schema.defs = NoKey THEN TRUE
           ELSE tables[json_schema.defs][d] = AbsentNode

\* C6: a $ref (of a property or of an array's items) to a name the definitions
\* table lacks makes build fail with UnresolvedReferenceError.
C6_UnresolvedReferenceError ==
  (Done /\ FirstRefUnresolved) => result = Raised("UnresolvedReferenceError")

\* C7: no declared property is dropped: a returned model has a field for every
\* property of the schema.
C7_NoPropertyDropped ==
  result.kind = "model" =>
    Range(Names(json_schema.properties)) \subseteq Range(Names(result.model.fields))

\* C8: a required field has no default; an optional primitive field has the
\* zero value of its type as default; an optional nested-model field has
\* null as default.
C8_DefaultPolicy ==
  \A f \in FieldsInSight :
    /\ ~f.optional => f.default_factory = NoneType
    /\ (f.optional /\ f.type.kind = "prim") => f.default_factory = f.type
    /\ (f.optional /\ f.type.kind = "model") => f.default_factory = NoneType

\* C9: every field has its own name as alias.
C9_AliasIsFieldName ==
  \A f \in FieldsInSight : f.alias = AliasStr(f.name)

\* C10: every nested factory works with the definitions table of the
\* top-level schema.
C10_SameDefinitionsTable ==
  \A k \in Frames : stack[k].definitions = stack[1].definitions

====
